---- MODULE Spec2Model ----
(***************************************************************************)
(* Model of SNHL_sim.py: the AudioProcessingApp object, its Tk handlers    *)
(* (handle_file_drop, open_files, choose_save_directory, save_audios,      *)
(* start_processing_thread), the worker threads running process_audios,    *)
(* and the two signal-processing functions nested in process_audios.       *)
(***************************************************************************)
EXTENDS Integers, Sequences, FiniteSets, TLC

(***************************************************************************)
(* Bounds of the model.                                                    *)
(***************************************************************************)
MaxRuns == 2
NumPaths == 2
MaxLen == 2
MaxDrop == 2
ExportLen == 2
DspMaxLen == 15

(***************************************************************************)
(* IEEE-754 binary64 arithmetic, as used by np.fft.rfftfreq(n, d):         *)
(*     val = 1.0/(n*d);  results = arange(0, n//2 + 1) * val               *)
(* with d = 1 / sampling_rate.  A 53-bit significand is held in four       *)
(* 16-bit limbs, most significant first; a double is [m, e] with value     *)
(* m * 2^e and 2^52 <= m < 2^53, or FZero.                                  *)
(***************************************************************************)
LimbBase == 2^16

BZero == <<0, 0, 0, 0>>

BShl1(x, bit) ==
    LET c0 == 2 * x[4] + bit
        c1 == 2 * x[3] + (c0 \div LimbBase)
        c2 == 2 * x[2] + (c1 \div LimbBase)
        c3 == 2 * x[1] + (c2 \div LimbBase)
    IN  <<c3 % LimbBase, c2 % LimbBase, c1 % LimbBase, c0 % LimbBase>>

BShr1(x) ==
    <<x[1] \div 2,
      ((x[1] % 2) * LimbBase + x[2]) \div 2,
      ((x[2] % 2) * LimbBase + x[3]) \div 2,
      ((x[3] % 2) * LimbBase + x[4]) \div 2>>

BOdd(x) == x[4] % 2 = 1

BLt(x, y) ==
    \/ x[1] < y[1]
    \/ x[1] = y[1] /\ x[2] < y[2]
    \/ x[1] = y[1] /\ x[2] = y[2] /\ x[3] < y[3]
    \/ x[1] = y[1] /\ x[2] = y[2] /\ x[3] = y[3] /\ x[4] < y[4]

BSub(x, y) ==
    LET s0 == x[4] - y[4]
        b0 == IF s0 < 0 THEN 1 ELSE 0
        s1 == x[3] - y[3] - b0
        b1 == IF s1 < 0 THEN 1 ELSE 0
        s2 == x[2] - y[2] - b1
        b2 == IF s2 < 0 THEN 1 ELSE 0
        s3 == x[1] - y[1] - b2
    IN  <<s3, (s2 + LimbBase) % LimbBase, (s1 + LimbBase) % LimbBase,
          (s0 + LimbBase) % LimbBase>>

BMulSmall(x, n) ==
    LET p0 == x[4] * n
        p1 == x[3] * n + (p0 \div LimbBase)
        p2 == x[2] * n + (p1 \div LimbBase)
        p3 == x[1] * n + (p2 \div LimbBase)
    IN  <<p3, p2 % LimbBase, p1 % LimbBase, p0 % LimbBase>>

BInc(x) ==
    LET c0 == x[4] + 1
        c1 == x[3] + (c0 \div LimbBase)
        c2 == x[2] + (c1 \div LimbBase)
        c3 == x[1] + (c2 \div LimbBase)
    IN  <<c3, c2 % LimbBase, c1 % LimbBase, c0 % LimbBase>>

FZero == [m |-> BZero, e |-> 0]

\* Normalise m * 2^e to 53 bits, rounding to nearest, ties to even; g is the
\* last bit shifted out, s whether any bit shifted out before it was set.
RECURSIVE RoundNorm(_, _, _, _)
RoundNorm(m, e, g, s) ==
    IF m = BZero THEN FZero
    ELSE IF m[1] >= 32 THEN RoundNorm(BShr1(m), e + 1, m[4] % 2, s \/ g = 1)
    ELSE IF m[1] < 16 THEN RoundNorm(BShl1(m, 0), e - 1, 0, FALSE)
    ELSE IF g = 1 /\ (s \/ BOdd(m))
         THEN LET m1 == BInc(m)
              IN  IF m1[1] >= 32 THEN [m |-> BShr1(m1), e |-> e + 1]
                  ELSE [m |-> m1, e |-> e]
    ELSE [m |-> m, e |-> e]

\* An integer below 2^16 as a double (exact).
FFromInt(n) == RoundNorm(<<n, 0, 0, 0>>, -48, 0, FALSE)

FMulInt(n, x) ==
    IF n = 0 \/ x = FZero THEN FZero
    ELSE RoundNorm(BMulSmall(x.m, n), x.e, 0, FALSE)

\* One step of restoring division on qr = <<quotient, remainder>>.
DivStep(qr, d) ==
    IF BLt(qr[2], d) THEN <<BShl1(qr[1], 0), BShl1(qr[2], 0)>>
    ELSE <<BShl1(qr[1], 1), BShl1(BSub(qr[2], d), 0)>>

\* Eight steps; a quotient of at most 56 bits keeps its top limb below 2^8.
RECURSIVE DivLoop(_, _, _)
DivLoop(qr, d, steps) ==
    IF steps = 0 \/ qr[1][1] >= 2^8 THEN qr
    ELSE DivLoop(DivStep(qr, d), d, steps - 1)

Div8(qr, d) == DivLoop(qr, d, 8)

\* 56 steps from <<0, x.m>> leave floor(x.m * 2^55 / y.m) and what remains.
FDiv(x, y) ==
    LET qr == Div8(Div8(Div8(Div8(Div8(Div8(Div8(<<BZero, x.m>>, y.m), y.m),
                                   y.m), y.m), y.m), y.m), y.m)
    IN  RoundNorm(qr[1], x.e - y.e - 55, 0, qr[2] # BZero)

FGt(x, y) ==
    IF x = FZero THEN FALSE
    ELSE IF y = FZero THEN TRUE
    ELSE x.e > y.e \/ (x.e = y.e /\ BLt(y.m, x.m))

\* freqs[k] of np.fft.rfftfreq(n, 1 / sampling_rate)
RfftFreq(n, sampling_rate, k) ==
    LET d   == FDiv(FFromInt(1), FFromInt(sampling_rate))
        val == FDiv(FFromInt(1), FMulInt(n, d))
    IN  FMulInt(k, val)


(***************************************************************************)
(* Values.                                                                 *)
(***************************************************************************)
\* A file path is a directory and a base name; the base name is a sequence
\* of characters, so that os.path.splitext can be computed on it.
AllPaths ==
    << [dir |-> "in1", name |-> <<"a", ".", "w">>],
       [dir |-> "in2", name |-> <<"a", ".", "w">>],
       [dir |-> "in1", name |-> <<"b">>],
       [dir |-> "in2", name |-> <<".", "c">>],
       [dir |-> "in1", name |-> <<"a", ".", "b", ".", "w">>] >>

Paths == {AllPaths[i] : i \in 1..NumPaths}

NoPath == [dir |-> "", name |-> <<>>]

Dirs == {"out"}

\* Native sampling rates of the input files: of the files the application
\* loads, and of the signals of the signal functions taken alone.
FileRates == {8000}
Rates == {8000, 12000, 16000}

\* A sample buffer is abstracted to its length and to whether its samples
\* are all zero ("zero"), not all zero ("nonzero") or NaN ("nan").
NoAudio == [n |-> 0, kind |-> "none"]

\* The buffers of at most maxlen samples of the given kinds, and the empty one.
Signals(maxlen, kinds) ==
    {[n |-> n, kind |-> kd] : n \in 1..maxlen, kd \in kinds}
        \cup {[n |-> 0, kind |-> "zero"]}

\* The files the application loads are not silent; silent signals are among
\* those of the signal functions taken alone.
FileKinds == {"nonzero"}
Kinds == {"zero", "nonzero"}

Raised(type) == [raised |-> TRUE, type |-> type, value |-> NoAudio]
Returned(v) == [raised |-> FALSE, type |-> "", value |-> v]

(***************************************************************************)
(* apply_frequency_dependent_attenuation (lines 111-119).                  *)
(***************************************************************************)
Threshold1 == 1000
Threshold2 == 3000
Threshold3 == 6000
\* The multipliers 0.6, 0.3 and 0.1 in tenths; gains are kept in thousandths.
Gain1 == 6
Gain2 == 3
Gain3 == 1
UnitGain == 1000

\* np.fft.rfft(signal): the number of bins, or ValueError for no samples.
RfftBins(n) == n \div 2 + 1

\* np.fft.irfft(a) without n: the output has 2*(m-1) samples for m bins.
IrfftLen(m) == 2 * (m - 1)

\* np.ones_like(freqs)
OnesLike(bins) == [k \in 1..bins |-> UnitGain]

\* attenuation[freqs > threshold] *= gain, bin k-1 holding freqs[k-1]
MaskGt(f, threshold) == FGt(f, FFromInt(threshold))

MaskStep(attenuation, n, sampling_rate, threshold, gain) ==
    [k \in DOMAIN attenuation |->
        IF MaskGt(RfftFreq(n, sampling_rate, k - 1), threshold)
        THEN (attenuation[k] * gain) \div 10
        ELSE attenuation[k]]

\* The kinds of buffer the inverse transform can return: every gain is
\* positive, so an even-length buffer keeps its kind; for an odd length the
\* inverse transform takes the last bin for the Nyquist bin and drops its
\* imaginary part, which may hold all of the signal.
IrfftKinds(signal) ==
    IF signal.kind = "nonzero" /\ signal.n % 2 = 1
    THEN {"zero", "nonzero"}
    ELSE {signal.kind}

\* The outcomes of apply_frequency_dependent_attenuation(signal, sr).
AttenuationOutcomes(signal, sampling_rate) ==
    IF signal.n = 0 THEN {Raised("ValueError")}
    ELSE IF IrfftLen(RfftBins(signal.n)) < 1 THEN {Raised("ValueError")}
    ELSE {Returned([n |-> IrfftLen(RfftBins(signal.n)), kind |-> kd]) :
             kd \in IrfftKinds(signal)}

(***************************************************************************)
(* apply_dynamic_range_compression (lines 122-124).                        *)
(***************************************************************************)
\* np.sign(signal) * np.log1p(np.abs(signal)) * 1.2 keeps length and kind.
Log1pCurve(signal) == signal

\* compressed_signal / np.max(np.abs(compressed_signal)): 0/0 is NaN in
\* floating point (a warning, not an exception); max of no samples raises.
PeakNormalise(compressed) ==
    IF compressed.n = 0 THEN Raised("ValueError")
    ELSE IF compressed.kind = "zero"
         THEN Returned([n |-> compressed.n, kind |-> "nan"])
    ELSE Returned(compressed)

Compression(signal) == PeakNormalise(Log1pCurve(signal))


(***************************************************************************)
(* State of the application.                                               *)
(***************************************************************************)
VARIABLES
    audio_paths,        \* self.audio_paths
    processed_audios,   \* self.processed_audios
    sampling_rates,     \* self.sampling_rates
    save_directory,     \* self.save_directory; "" for None and for ""
    loading,            \* self.loading
    save_button,        \* state of self.save_button
    status_label,       \* text of self.status_label
    messagebox,         \* the dialog shown by the step just taken, if any
    threads,            \* the threads made by start_processing_thread
    save,               \* the save_audios call on the Tk thread; after a
                        \* failed call, i and saved_files as it left them
    disk,               \* the files written by sf.write
    batch,              \* history: the state of the latest run, and the run
    overlap,            \* history: a run began while another was running
    dsp                 \* one call of the two signal functions, step by step

appVars == <<audio_paths, processed_audios, sampling_rates, save_directory,
             loading, save_button, status_label, messagebox, threads, save,
             disk, batch, overlap>>

vars == <<audio_paths, processed_audios, sampling_rates, save_directory,
          loading, save_button, status_label, messagebox, threads, save,
          disk, batch, overlap, dsp>>

Runs == 1..MaxRuns

NewThread ==
    [pc |-> "unborn", it |-> 0, audio_path |-> NoPath, audio |-> NoAudio,
     sr |-> 0, stage |-> "", exc |-> "", outcome |-> "none"]

SaveIdle == [pc |-> "idle", i |-> 0, saved_files |-> <<>>, began |-> "Idle"]

\* Idle, Running, Completed or Failed; run: the thread of the latest run.
BatchIdle == [state |-> "Idle", run |-> 0]

DspIdle ==
    [pc |-> "idle", signal |-> NoAudio, sampling_rate |-> 0, bins |-> 0,
     attenuation |-> <<>>, out |-> NoAudio]

\* __init__ (lines 12-54)
AppInit ==
    /\ audio_paths = <<>>
    /\ processed_audios = <<>>
    /\ sampling_rates = <<>>
    /\ save_directory = ""
    /\ loading = FALSE
    /\ save_button = "DISABLED"
    /\ status_label = ""
    /\ messagebox = <<>>
    /\ threads = [t \in Runs |-> NewThread]
    /\ save = SaveIdle
    /\ disk = {}
    /\ batch = BatchIdle
    /\ overlap = FALSE

Init == AppInit /\ dsp = DspIdle

\* messagebox.showerror / showinfo: the step shows a dialog, or none.
ShowDialog(kind, title) == messagebox' = <<[kind |-> kind, title |-> title]>>
NoDialog == messagebox' = <<>>

\* The Tk thread runs one handler at a time.
TkIdle == save.pc = "idle"

(***************************************************************************)
(* Adding files and choosing the directory.                                *)
(***************************************************************************)
\* A test that finds no path in the list.
NeverInList(x, list) == FALSE

\* file not in self.audio_paths (lines 59 and 66)
InList(x, list) == \E i \in 1..Len(list) : list[i] = x

\* White space between two paths of event.data.
WhiteSpace == [dir |-> "", name |-> <<" ">>]

\* parse_file_paths (lines 70-71): event.data split at white space.
ParseFilePaths(file_data) == SelectSeq(file_data, LAMBDA w : w # WhiteSpace)

\* The loop of handle_file_drop (lines 58-61) over the files from index i.
RECURSIVE DropLoop(_, _, _, _)
DropLoop(paths, files, regular, i) ==
    IF i > Len(files) THEN paths
    ELSE IF ~InList(files[i], paths) /\ files[i] \in regular
         THEN DropLoop(Append(paths, files[i]), files, regular, i + 1)
    ELSE DropLoop(paths, files, regular, i + 1)

\* The loop of open_files (lines 65-68).
RECURSIVE OpenLoop(_, _, _)
OpenLoop(paths, files, i) ==
    IF i > Len(files) THEN paths
    ELSE IF ~InList(files[i], paths)
         THEN OpenLoop(Append(paths, files[i]), files, i + 1)
    ELSE OpenLoop(paths, files, i + 1)

FileLists == UNION {[1..k -> Paths] : k \in 0..MaxDrop}

\* What os.path.isfile may accept: every path, or all but the first.
RegularFiles == {Paths, Paths \ {AllPaths[1]}}

\* event.data of a drop: the dropped paths with white space between them.
RECURSIVE JoinPaths(_)
JoinPaths(files) ==
    IF Len(files) <= 1 THEN files
    ELSE <<Head(files), WhiteSpace>> \o JoinPaths(Tail(files))

DropData == {JoinPaths(files) : files \in FileLists}

\* handle_file_drop (lines 56-61); regular: the paths os.path.isfile accepts.
handle_file_drop(file_data, regular) ==
    /\ TkIdle
    /\ audio_paths' = DropLoop(audio_paths, ParseFilePaths(file_data), regular, 1)
    /\ NoDialog
    /\ UNCHANGED <<processed_audios, sampling_rates, save_directory, loading,
                   save_button, status_label, threads, save, disk, batch,
                   overlap, dsp>>

\* open_files (lines 63-68); files: what the file dialog returns.
open_files(files) ==
    /\ TkIdle
    /\ audio_paths' = OpenLoop(audio_paths, files, 1)
    /\ NoDialog
    /\ UNCHANGED <<processed_audios, sampling_rates, save_directory, loading,
                   save_button, status_label, threads, save, disk, batch,
                   overlap, dsp>>

\* choose_save_directory (lines 138-141); "" when the dialog is cancelled.
choose_save_directory(directory) ==
    /\ TkIdle
    /\ save_directory' = directory
    /\ status_label' = IF directory # "" THEN "Save directory selected"
                       ELSE status_label
    /\ NoDialog
    /\ UNCHANGED <<audio_paths, processed_audios, sampling_rates, loading,
                   save_button, threads, save, disk, batch, overlap, dsp>>


(***************************************************************************)
(* process_audios on a worker thread (lines 92-136).                       *)
(***************************************************************************)
\* The pcs at which a run is between its first clear and its finally block.
InRunPcs == {"clear_audios", "clear_rates", "iter", "load", "attenuate",
             "compress", "append_audio", "append_rate", "success", "except",
             "finally"}

InRun(t) == threads[t].pc \in InRunPcs

\* The pcs of a run that has cleared both result lists.
ClearedPcs == InRunPcs \ {"clear_audios", "clear_rates"}

Goto(t, pc) == threads' = [threads EXCEPT ![t].pc = pc]

\* start_processing_thread (lines 92-95): the next thread is started.
start_processing_thread(t) ==
    /\ TkIdle
    /\ threads[t].pc = "unborn"
    /\ \A u \in Runs : u < t => threads[u].pc # "unborn"
    /\ Goto(t, "start")
    /\ NoDialog
    /\ UNCHANGED <<audio_paths, processed_audios, sampling_rates,
                   save_directory, loading, save_button, status_label, save,
                   disk, batch, overlap, dsp>>

\* Lines 98-102: the check for no paths, then start_loading_animation.
Begin(t) ==
    /\ threads[t].pc = "start"
    /\ IF audio_paths = <<>>
       THEN /\ ShowDialog("error", "Error: No audio files loaded.")
            /\ threads' = [threads EXCEPT ![t].pc = "done",
                                          ![t].outcome = "empty"]
            /\ UNCHANGED <<loading, batch, overlap>>
       ELSE /\ loading' = TRUE
            /\ Goto(t, "clear_audios")
            /\ batch' = [state |-> "Running", run |-> t]
            /\ overlap' = (overlap \/ \E u \in Runs \ {t} : InRun(u))
            /\ NoDialog
    /\ UNCHANGED <<audio_paths, processed_audios, sampling_rates,
                   save_directory, save_button, status_label, save, disk, dsp>>

\* A clear() that leaves the list as it is.
NotCleared(list) == list

\* self.processed_audios.clear() and self.sampling_rates.clear()
Cleared(list) == <<>>

\* Line 103
ClearAudios(t) ==
    /\ threads[t].pc = "clear_audios"
    /\ processed_audios' = Cleared(processed_audios)
    /\ Goto(t, "clear_rates")
    /\ NoDialog
    /\ UNCHANGED <<audio_paths, sampling_rates, save_directory, loading,
                   save_button, status_label, save, disk, batch, overlap,
                   dsp>>

\* Line 104
ClearRates(t) ==
    /\ threads[t].pc = "clear_rates"
    /\ sampling_rates' = Cleared(sampling_rates)
    /\ Goto(t, "iter")
    /\ NoDialog
    /\ UNCHANGED <<audio_paths, processed_audios, save_directory, loading,
                   save_button, status_label, save, disk, batch, overlap,
                   dsp>>

\* Line 107: the list iterator of the for loop reads the live list.
IterNext(t) ==
    /\ threads[t].pc = "iter"
    /\ IF threads[t].it < Len(audio_paths)
       THEN threads' = [threads EXCEPT
                ![t].pc = "load",
                ![t].it = @ + 1,
                ![t].audio_path = audio_paths[threads[t].it + 1]]
       ELSE threads' = [threads EXCEPT ![t].pc = "success", ![t].it = 0,
                                       ![t].audio_path = NoPath]
    /\ NoDialog
    /\ UNCHANGED <<audio_paths, processed_audios, sampling_rates,
                   save_directory, loading, save_button, status_label, save,
                   disk, batch, overlap, dsp>>

\* Line 108: librosa.load(audio_path, sr=None) returns the samples and the
\* native rate of the file, or raises.
LoadOutcomes(rates, maxlen, kinds) ==
    {[raised |-> TRUE, type |-> "LoadError", value |-> NoAudio, sr |-> 0]}
        \cup {[raised |-> FALSE, type |-> "", value |-> a, sr |-> r] :
                 a \in Signals(maxlen, kinds), r \in rates}

\* The thread t leaves a stage: on to pc next with its result, or into the
\* except clause with the stage and the exception.
StageDone(t, stage, res, next, sr) ==
    threads' = [threads EXCEPT
        ![t].pc = IF res.raised THEN "except" ELSE next,
        ![t].stage = IF res.raised THEN stage ELSE "",
        ![t].exc = IF res.raised THEN res.type ELSE "",
        ![t].audio = res.value,
        ![t].sr = IF res.raised THEN 0 ELSE sr]

\* A load whose result goes to compression without attenuation.
LoadThenCompress(t) ==
    /\ threads[t].pc = "load"
    /\ \E res \in LoadOutcomes(FileRates, MaxLen, FileKinds) :
          StageDone(t, "load", res, "compress", res.sr)
    /\ NoDialog
    /\ UNCHANGED <<audio_paths, processed_audios, sampling_rates,
                   save_directory, loading, save_button, status_label, save,
                   disk, batch, overlap, dsp>>

\* Line 108
Load(t) ==
    /\ threads[t].pc = "load"
    /\ \E res \in LoadOutcomes(FileRates, MaxLen, FileKinds) :
          StageDone(t, "load", res, "attenuate", res.sr)
    /\ NoDialog
    /\ UNCHANGED <<audio_paths, processed_audios, sampling_rates,
                   save_directory, loading, save_button, status_label, save,
                   disk, batch, overlap, dsp>>

\* Line 126
Attenuate(t) ==
    /\ threads[t].pc = "attenuate"
    /\ \E res \in AttenuationOutcomes(threads[t].audio, threads[t].sr) :
          StageDone(t, "attenuate", res, "compress", threads[t].sr)
    /\ NoDialog
    /\ UNCHANGED <<audio_paths, processed_audios, sampling_rates,
                   save_directory, loading, save_button, status_label, save,
                   disk, batch, overlap, dsp>>

\* Line 127
Compress(t) ==
    /\ threads[t].pc = "compress"
    /\ StageDone(t, "compress", Compression(threads[t].audio),
                 "append_audio", threads[t].sr)
    /\ NoDialog
    /\ UNCHANGED <<audio_paths, processed_audios, sampling_rates,
                   save_directory, loading, save_button, status_label, save,
                   disk, batch, overlap, dsp>>

\* Line 128; src and run record where the buffer comes from.
AppendAudio(t) ==
    /\ threads[t].pc = "append_audio"
    /\ processed_audios' = Append(processed_audios,
          [src |-> threads[t].audio_path, run |-> t,
           n |-> threads[t].audio.n, kind |-> threads[t].audio.kind])
    /\ Goto(t, "append_rate")
    /\ NoDialog
    /\ UNCHANGED <<audio_paths, sampling_rates, save_directory, loading,
                   save_button, status_label, save, disk, batch, overlap,
                   dsp>>

\* Line 129
AppendRate(t) ==
    /\ threads[t].pc = "append_rate"
    /\ sampling_rates' = Append(sampling_rates,
          [src |-> threads[t].audio_path, run |-> t, sr |-> threads[t].sr])
    /\ threads' = [threads EXCEPT ![t].pc = "iter", ![t].audio = NoAudio,
                                  ![t].sr = 0]
    /\ NoDialog
    /\ UNCHANGED <<audio_paths, processed_audios, save_directory, loading,
                   save_button, status_label, save, disk, batch, overlap,
                   dsp>>

\* Lines 131-132
Success(t) ==
    /\ threads[t].pc = "success"
    /\ save_button' = "NORMAL"
    /\ status_label' = "Audio files processed successfully."
    /\ batch' = [state |-> "Completed", run |-> t]
    /\ threads' = [threads EXCEPT ![t].pc = "finally",
                                  ![t].outcome = "success"]
    /\ NoDialog
    /\ UNCHANGED <<audio_paths, processed_audios, sampling_rates,
                   save_directory, loading, save, disk, overlap, dsp>>

\* A path as text.
PathText(path) == <<path.dir, "/">> \o path.name

\* str(e). numpy's messages for a transform or a maximum of no samples name
\* no file; the message of a failed load comes from outside this program and
\* may name the file or not.
ExceptionTexts(exc, audio_path) ==
    IF exc = "LoadError"
    THEN {<<"Error opening ">> \o PathText(audio_path), <<"LoadError">>}
    ELSE {<<"ValueError">>}

\* Line 134: f"An error occurred: {e}"
ProcessingError(text) ==
    [kind |-> "error", title |-> "Processing Error",
     message |-> <<"An error occurred: ">> \o text]

\* Lines 133-134
Except(t) ==
    /\ threads[t].pc = "except"
    /\ \E text \in ExceptionTexts(threads[t].exc, threads[t].audio_path) :
          messagebox' = <<ProcessingError(text)>>
    /\ batch' = [state |-> "Failed", run |-> t]
    /\ threads' = [threads EXCEPT ![t].pc = "finally",
                                  ![t].outcome = "failed",
                                  ![t].stage = "",
                                  ![t].exc = "",
                                  ![t].it = 0,
                                  ![t].audio_path = NoPath,
                                  ![t].audio = NoAudio,
                                  ![t].sr = 0]
    /\ UNCHANGED <<audio_paths, processed_audios, sampling_rates,
                   save_directory, loading, save_button, status_label, save,
                   disk, overlap, dsp>>

\* A finally clause that leaves the loading flag as it is.
FinallyWithoutStop(t) ==
    /\ threads[t].pc = "finally"
    /\ Goto(t, "done")
    /\ NoDialog
    /\ UNCHANGED <<audio_paths, processed_audios, sampling_rates,
                   save_directory, loading, save_button, status_label, save,
                   disk, batch, overlap, dsp>>

\* Lines 135-136 and 78-81: stop_loading_animation
Finally(t) ==
    /\ threads[t].pc = "finally"
    /\ loading' = FALSE
    /\ Goto(t, "done")
    /\ NoDialog
    /\ UNCHANGED <<audio_paths, processed_audios, sampling_rates,
                   save_directory, save_button, status_label, save, disk,
                   batch, overlap, dsp>>


(***************************************************************************)
(* save_audios on the Tk thread (lines 143-165).                           *)
(***************************************************************************)
\* The index of the last "." of a name, 0 when there is none.
LastDot(name) ==
    LET dots == {i \in 1..Len(name) : name[i] = "."}
    IN  IF dots = {} THEN 0 ELSE CHOOSE i \in dots : \A j \in dots : j <= i

\* os.path.splitext: the extension starts at the last dot, unless only dots
\* come before it.
SplitExt(name) ==
    LET d == LastDot(name)
    IN  IF d > 0 /\ \E j \in 1..(d - 1) : name[j] # "."
        THEN <<SubSeq(name, 1, d - 1), SubSeq(name, d, Len(name))>>
        ELSE <<name, <<>> >>

\* A name split at its last dot, wherever that dot is.
OutputPathAtLastDot(directory, audio_path) ==
    LET name == audio_path.name
        d == LastDot(name)
    IN  [dir |-> directory,
         name |-> IF d = 0 THEN name \o <<"_SNHL_sim">>
                  ELSE SubSeq(name, 1, d - 1) \o <<"_SNHL_sim">>
                           \o SubSeq(name, d, Len(name))]

\* Lines 155-156
OutputPath(directory, audio_path) ==
    LET parts == SplitExt(audio_path.name)
    IN  [dir |-> directory, name |-> parts[1] \o <<"_SNHL_sim">> \o parts[2]]

\* Lines 144-150: the two guards; the loop starts when both pass.
SaveBegin ==
    /\ TkIdle
    /\ save_button = "NORMAL"
    /\ IF processed_audios = <<>> \/ sampling_rates = <<>>
       THEN /\ ShowDialog("error", "Error: No processed audio to save.")
            /\ UNCHANGED save
       ELSE IF save_directory = ""
       THEN /\ ShowDialog("error", "Error: No save directory selected.")
            /\ UNCHANGED save
       ELSE /\ save' = [pc |-> "loop", i |-> 0, saved_files |-> <<>>,
                        began |-> batch.state]
            /\ NoDialog
    /\ UNCHANGED <<audio_paths, processed_audios, sampling_rates,
                   save_directory, loading, save_button, status_label,
                   threads, disk, batch, overlap, dsp>>

\* sf.write(output_path, data, samplerate): the file replaces any file of
\* that path.
Written(files, output_path, i) ==
    {f \in files : f.path # output_path} \cup
        {[path |-> output_path, src |-> audio_paths[i],
          frames |-> processed_audios[i].n,
          samplerate |-> sampling_rates[i].sr]}

\* A loop that goes on to the next index after a failure.
SaveStepContinuing(written) ==
    /\ save.pc = "loop"
    /\ IF save.i < Len(audio_paths)
       THEN LET i == save.i + 1
                output_path == OutputPath(save_directory, audio_paths[i])
            IN  IF i > Len(processed_audios) \/ i > Len(sampling_rates)
                   \/ ~written
                THEN /\ ShowDialog("error", "Save Error")
                     /\ save' = [save EXCEPT !.i = i]
                     /\ UNCHANGED <<disk, status_label>>
                ELSE /\ disk' = Written(disk, output_path, i)
                     /\ save' = [save EXCEPT !.i = i,
                            !.saved_files = Append(@, output_path)]
                     /\ NoDialog
                     /\ UNCHANGED status_label
       ELSE /\ status_label' = "Processed files saved"
            /\ ShowDialog("info", "Success")
            /\ save' = SaveIdle
            /\ UNCHANGED disk
    /\ UNCHANGED <<audio_paths, processed_audios, sampling_rates,
                   save_directory, loading, save_button, threads, batch,
                   overlap, dsp>>

\* Lines 154-165: one iteration of the loop, or its end; written: whether
\* sf.write succeeds.
SaveStep(written) ==
    /\ save.pc = "loop"
    /\ IF save.i < Len(audio_paths)
       THEN LET i == save.i + 1
                output_path == OutputPath(save_directory, audio_paths[i])
            IN  IF i > Len(processed_audios) \/ i > Len(sampling_rates)
                   \/ ~written
                THEN /\ ShowDialog("error", "Save Error")
                     /\ save' = [save EXCEPT !.pc = "idle", !.began = "Idle"]
                     /\ UNCHANGED <<disk, status_label>>
                ELSE /\ disk' = Written(disk, output_path, i)
                     /\ save' = [save EXCEPT !.i = i,
                            !.saved_files = Append(@, output_path)]
                     /\ NoDialog
                     /\ UNCHANGED status_label
       ELSE /\ status_label' = "Processed files saved"
            /\ ShowDialog("info", "Success")
            /\ save' = SaveIdle
            /\ UNCHANGED disk
    /\ UNCHANGED <<audio_paths, processed_audios, sampling_rates,
                   save_directory, loading, save_button, threads, batch,
                   overlap, dsp>>

(***************************************************************************)
(* The application.                                                        *)
(***************************************************************************)
Next ==
    \/ \E file_data \in DropData, regular \in RegularFiles :
          handle_file_drop(file_data, regular)
    \/ \E files \in FileLists : open_files(files)
    \/ \E directory \in Dirs \cup {""} : choose_save_directory(directory)
    \/ \E t \in Runs : start_processing_thread(t)
    \/ \E t \in Runs : Begin(t)
    \/ \E t \in Runs : ClearAudios(t)
    \/ \E t \in Runs : ClearRates(t)
    \/ \E t \in Runs : IterNext(t)
    \/ \E t \in Runs : Load(t)
    \/ \E t \in Runs : Attenuate(t)
    \/ \E t \in Runs : Compress(t)
    \/ \E t \in Runs : AppendAudio(t)
    \/ \E t \in Runs : AppendRate(t)
    \/ \E t \in Runs : Success(t)
    \/ \E t \in Runs : Except(t)
    \/ \E t \in Runs : Finally(t)
    \/ SaveBegin
    \/ \E written \in BOOLEAN : SaveStep(written)

Spec == Init /\ [][Next]_vars


(***************************************************************************)
(* The runs alone: files are added and runs started, and every thread that *)
(* can take a step eventually takes one.                                   *)
(***************************************************************************)
\* The steps of process_audios on thread t.
ThreadStep(t) ==
    \/ Begin(t)
    \/ ClearAudios(t)
    \/ ClearRates(t)
    \/ IterNext(t)
    \/ Load(t)
    \/ Attenuate(t)
    \/ Compress(t)
    \/ AppendAudio(t)
    \/ AppendRate(t)
    \/ Success(t)
    \/ Except(t)
    \/ Finally(t)

RunNext ==
    \/ \E file_data \in DropData, regular \in RegularFiles :
          handle_file_drop(file_data, regular)
    \/ \E files \in FileLists : open_files(files)
    \/ \E t \in Runs : start_processing_thread(t)
    \/ \E t \in Runs : ThreadStep(t)

\* A started thread is scheduled, and each call it makes returns or raises.
SpecRun ==
    /\ Init
    /\ [][RunNext]_vars
    /\ \A t \in Runs : WF_vars(ThreadStep(t))


(***************************************************************************)
(* The two signal functions taken alone, one source line at a time, on     *)
(* every signal of at most DspMaxLen samples at every rate of Rates.       *)
(***************************************************************************)
DspInputs ==
    {[pc |-> "rfft", signal |-> sg, sampling_rate |-> r, bins |-> 0,
      attenuation |-> <<>>, out |-> NoAudio] :
        sg \in Signals(DspMaxLen, Kinds), r \in Rates}

DspInit == AppInit /\ dsp \in DspInputs

\* Lines 112-114: rfft, rfftfreq and ones_like
DspRfft ==
    /\ dsp.pc = "rfft"
    /\ dsp' = IF dsp.signal.n = 0
              THEN [dsp EXCEPT !.pc = "raised"]
              ELSE [dsp EXCEPT !.pc = "mask1",
                               !.bins = RfftBins(dsp.signal.n),
                               !.attenuation = OnesLike(RfftBins(dsp.signal.n))]
    /\ UNCHANGED appVars

\* Line 115
DspMask1 ==
    /\ dsp.pc = "mask1"
    /\ dsp' = [dsp EXCEPT !.pc = "mask2",
                  !.attenuation = MaskStep(@, dsp.signal.n, dsp.sampling_rate,
                                           Threshold1, Gain1)]
    /\ UNCHANGED appVars

\* Line 116
DspMask2 ==
    /\ dsp.pc = "mask2"
    /\ dsp' = [dsp EXCEPT !.pc = "mask3",
                  !.attenuation = MaskStep(@, dsp.signal.n, dsp.sampling_rate,
                                           Threshold2, Gain2)]
    /\ UNCHANGED appVars

\* Line 117
DspMask3 ==
    /\ dsp.pc = "mask3"
    /\ dsp' = [dsp EXCEPT !.pc = "irfft",
                  !.attenuation = MaskStep(@, dsp.signal.n, dsp.sampling_rate,
                                           Threshold3, Gain3)]
    /\ UNCHANGED appVars

\* Lines 118-119
DspIrfft ==
    /\ dsp.pc = "irfft"
    /\ \E res \in AttenuationOutcomes(dsp.signal, dsp.sampling_rate) :
          dsp' = [dsp EXCEPT !.pc = IF res.raised THEN "raised" ELSE "log1p",
                             !.out = res.value]
    /\ UNCHANGED appVars

\* Line 123
DspLog1p ==
    /\ dsp.pc = "log1p"
    /\ dsp' = [dsp EXCEPT !.pc = "normalise", !.out = Log1pCurve(@)]
    /\ UNCHANGED appVars

\* Line 124
DspNormalise ==
    /\ dsp.pc = "normalise"
    /\ LET res == PeakNormalise(dsp.out)
       IN  dsp' = [dsp EXCEPT !.pc = IF res.raised THEN "raised" ELSE "done",
                              !.out = res.value]
    /\ UNCHANGED appVars

DspNext ==
    \/ DspRfft
    \/ DspMask1
    \/ DspMask2
    \/ DspMask3
    \/ DspIrfft
    \/ DspLog1p
    \/ DspNormalise

SpecDsp == DspInit /\ [][DspNext]_vars


(***************************************************************************)
(* Properties.                                                             *)
(***************************************************************************)
\* A run is in progress: it has begun and has left neither by its success
\* branch nor by its except clause.
Processing(t) == threads[t].pc \in InRunPcs \ {"finally"}

EqualLengths ==
    /\ Len(audio_paths) = Len(processed_audios)
    /\ Len(processed_audios) = Len(sampling_rates)

\* One result per path, in order, entry i made from audio_paths[i].
CompleteResult ==
    /\ EqualLengths
    /\ \A i \in 1..Len(audio_paths) :
          /\ processed_audios[i].src = audio_paths[i]
          /\ sampling_rates[i].src = audio_paths[i]

\* C1: A save_audios call made when the most recent process_audios run has
\* failed writes no output file (stated for runs that never overlap).
C1_AllOrNothing ==
    (~overlap /\ save.began = "Failed") => save.saved_files = <<>>

\* C2: At most one process_audios run is between its first clear and the end
\* of its finally block.
C2_SingleRun == Cardinality({t \in Runs : InRun(t)}) <= 1

\* C3: The loop of save_audios runs only when the most recent run of
\* process_audios has completed and no run is in progress (stated for runs
\* that never overlap).
C3_ExportGate ==
    (~overlap /\ save.pc = "loop") =>
        /\ batch.state = "Completed"
        /\ \A t \in Runs : ~Processing(t)

\* C4: In every state audio_paths, processed_audios and sampling_rates have
\* the same length, and entry i of the results is made from audio_paths[i].
C4_IndexAligned == CompleteResult

\* C5: When a run that overlapped no other run takes its success branch, the
\* results hold exactly one entry per path of audio_paths, in order.
C5_CompleteOnSuccess ==
    [][\A t \in Runs :
          (threads[t].pc = "success" /\ threads'[t].pc = "finally" /\ ~overlap')
              => CompleteResult']_vars

\* C6: apply_frequency_dependent_attenuation returns, for every input of
\* N >= 1 samples, a buffer of exactly N samples.
C6_LengthPreserved ==
    dsp.signal.n >= 1 =>
        /\ dsp.pc # "raised"
        /\ dsp.pc = "log1p" => dsp.out.n = dsp.signal.n

\* C7: apply_dynamic_range_compression returns the all-zero buffer for an
\* all-zero buffer, and never a buffer of NaN.
C7_SilentGuard ==
    dsp.pc = "done" =>
        /\ dsp.out.kind # "nan"
        /\ dsp.signal.kind = "zero" => dsp.out.kind = "zero"

\* The gain, in thousandths, of the band of bin k of n samples at rate sr,
\* the frequency being k * sr / n exactly.
BandGain(k, n, sr) ==
    IF k * sr <= 1000 * n THEN 1000
    ELSE IF k * sr <= 3000 * n THEN 600
    ELSE IF k * sr <= 6000 * n THEN 180
    ELSE 18

\* C8: The gain of every bin is that of the band its frequency k * sr / N
\* lies in, 1, 0.6, 0.18 or 0.018, a bin at exactly 1000, 3000 or 6000 Hz
\* having the gain of the lower band, and the mask is non-increasing.
C8_GainMask ==
    dsp.pc \in {"irfft", "log1p", "normalise", "done"} =>
        /\ \A k \in 1..dsp.bins :
              dsp.attenuation[k] =
                  BandGain(k - 1, dsp.signal.n, dsp.sampling_rate)
        /\ \A k \in 1..(dsp.bins - 1) :
              dsp.attenuation[k + 1] <= dsp.attenuation[k]

\* Every entry of both result lists was appended by run r.
OnlyEntriesOf(r) ==
    /\ \A i \in 1..Len(processed_audios) : processed_audios[i].run = r
    /\ \A i \in 1..Len(sampling_rates) : sampling_rates[i].run = r

\* C9: As long as no two runs overlap, both result lists are empty when a
\* run loads its first file, and once the most recent run has cleared both
\* lists they hold only entries that run appended.
C9_ReentrantReset ==
    ~overlap =>
        /\ \A t \in Runs :
              (threads[t].pc = "load" /\ threads[t].it = 1) =>
                  (processed_audios = <<>> /\ sampling_rates = <<>>)
        /\ (batch.run # 0
              /\ threads[batch.run].pc \in ClearedPcs \cup {"done"}) =>
                  OnlyEntriesOf(batch.run)

\* A second run has ended with results, after a first run that succeeded,
\* and the two did not overlap.
C9_Witness ==
    /\ ~overlap
    /\ batch.run # 0
    /\ threads[batch.run].pc = "done"
    /\ \E u \in Runs \ {batch.run} : threads[u].outcome = "success"
    /\ processed_audios # <<>>
    /\ sampling_rates # <<>>

\* C10: save_audios writes a file only in a state where audio_paths,
\* processed_audios and sampling_rates have the same length (stated for
\* runs that never overlap).
C10_ExportRequiresEqualLengths ==
    [][(~overlap /\ Len(save'.saved_files) > Len(save.saved_files))
          => EqualLengths]_vars

SaveErrorDialog == [kind |-> "error", title |-> "Save Error"]
SuccessDialog == [kind |-> "info", title |-> "Success"]

OnDisk(files, path) == \E f \in files : f.path = path

\* C11: When the lookup or the write for an index fails in save_audios, the
\* call ends with the Save Error dialog and writes nothing more; the files it
\* wrote for the earlier indices stay on disk; a lookup beyond the end of a
\* result list always fails; the Success dialog is shown only by a call that
\* wrote a file for every path.
C11_ExportAbort ==
    [][/\ (/\ save.pc = "loop"
           /\ save.i < Len(audio_paths)
           /\ (save.i >= Len(processed_audios)
                  \/ save.i >= Len(sampling_rates))
           /\ save' # save)
              => messagebox' = <<SaveErrorDialog>>
       /\ (save.pc = "loop" /\ messagebox' = <<SaveErrorDialog>>)
              => /\ save'.pc = "idle"
                 /\ save'.saved_files = save.saved_files
                 /\ disk' = disk
                 /\ \A j \in 1..Len(save.saved_files) :
                       OnDisk(disk', save.saved_files[j])
       /\ messagebox' = <<SuccessDialog>>
              => /\ save.pc = "loop"
                 /\ Len(save.saved_files) = Len(audio_paths)
       /\ (save.pc = "idle" /\ save'.pc = "idle") => disk' = disk]_vars

\* A call has failed at an index after writing files for earlier indices.
C11_Witness ==
    /\ messagebox = <<SaveErrorDialog>>
    /\ save.pc = "idle"
    /\ save.saved_files # <<>>
    /\ Len(save.saved_files) < Len(audio_paths)
    /\ \A j \in 1..Len(save.saved_files) : OnDisk(disk, save.saved_files[j])

\* The text holds the part, as consecutive pieces.
Contains(text, part) ==
    \E i \in 1..(Len(text) - Len(part) + 1) :
        SubSeq(text, i, i + Len(part) - 1) = part

\* C12: When a run takes its except clause because load, attenuate or
\* compress raised on a file, the dialog it shows names the path of that file
\* and the stage that failed.
C12_FailureIdentifiesOffender ==
    [][\A t \in Runs :
          (threads[t].pc = "except" /\ threads'[t].pc = "finally") =>
              /\ messagebox' # <<>>
              /\ Contains(messagebox'[1].message,
                          PathText(threads[t].audio_path))
              /\ Contains(messagebox'[1].message, <<threads[t].stage>>)]_vars

NoDuplicates(list) ==
    \A i, j \in 1..Len(list) : i # j => list[i] # list[j]

IsPrefix(list, longer) ==
    /\ Len(list) <= Len(longer)
    /\ SubSeq(longer, 1, Len(list)) = list

\* C13: Every step leaves audio_paths without a path that occurs twice, and
\* keeps the entries it had, in their places, as a prefix of the new list.
C13_DeduplicatedAppendOnly ==
    [][NoDuplicates(audio_paths') /\ IsPrefix(audio_paths, audio_paths')]_vars

\* Two paths added by two calls: a run that met only the first has completed.
C13_Witness ==
    /\ Len(audio_paths) >= 2
    /\ NoDuplicates(audio_paths)
    /\ ~overlap
    /\ batch.state = "Completed"
    /\ Len(processed_audios) = 1


(***************************************************************************)
(* save_audios after a run that succeeded, over every kind of file name.   *)
(***************************************************************************)
ExportPaths == {AllPaths[i] : i \in DOMAIN AllPaths}

\* The lists handle_file_drop and open_files can build.
ExportLists ==
    {l \in UNION {[1..k -> ExportPaths] : k \in 1..ExportLen} :
        NoDuplicates(l)}

\* The state after one run has succeeded on the files of audio_paths, of
\* any rates, and has ended.
ExportInit ==
    /\ audio_paths \in ExportLists
    /\ processed_audios =
          [i \in 1..Len(audio_paths) |->
              [src |-> audio_paths[i], run |-> 1, n |-> 2, kind |-> "nonzero"]]
    /\ \E rates \in [1..Len(audio_paths) -> Rates] :
          sampling_rates =
              [i \in 1..Len(audio_paths) |->
                  [src |-> audio_paths[i], run |-> 1, sr |-> rates[i]]]
    /\ save_directory = ""
    /\ loading = FALSE
    /\ save_button = "NORMAL"
    /\ status_label = "Audio files processed successfully."
    /\ messagebox = <<>>
    /\ threads = [t \in Runs |->
                     IF t = 1
                     THEN [NewThread EXCEPT !.pc = "done",
                                            !.outcome = "success"]
                     ELSE NewThread]
    /\ save = SaveIdle
    /\ disk = {}
    /\ batch = [state |-> "Completed", run |-> 1]
    /\ overlap = FALSE
    /\ dsp = DspIdle

ExportNext ==
    \/ \E directory \in Dirs \cup {""} : choose_save_directory(directory)
    \/ SaveBegin
    \/ \E written \in BOOLEAN : SaveStep(written)

SpecExport == ExportInit /\ [][ExportNext]_vars

\* The stem has a character that is not a dot.
HasName(stem) == \E j \in 1..Len(stem) : stem[j] # "."

\* ext is the extension of stem \o ext: it starts at the last dot, a dot
\* being an extension dot when a character other than a dot comes before it;
\* it is empty when the name has no such dot.
IsExtension(stem, ext) ==
    IF ext = <<>>
    THEN \A d \in 1..Len(stem) :
            stem[d] = "." => ~HasName(SubSeq(stem, 1, d - 1))
    ELSE /\ ext[1] = "."
         /\ \A j \in 2..Len(ext) : ext[j] # "."
         /\ HasName(stem)

NamedFrom(out, name) ==
    \E d \in 0..Len(name) :
        LET stem == SubSeq(name, 1, d)
            ext == SubSeq(name, d + 1, Len(name))
        IN  /\ IsExtension(stem, ext)
            /\ out = stem \o <<"_SNHL_sim">> \o ext

\* C14: Every file save_audios writes is in the chosen directory, its name
\* is stem, "_SNHL_sim", ext, where stem and ext are the source name split at
\* its last extension dot (ext empty when there is none; the leading dot of
\* a name such as ".c" starts no extension), and it is written with the rate
\* stored at the index of its source.
C14_OutputNaming ==
    [][Len(save'.saved_files) > Len(save.saved_files) =>
          LET k == save'.i
              p == save'.saved_files[Len(save'.saved_files)]
          IN  /\ p.dir = save_directory
              /\ NamedFrom(p.name, audio_paths[k].name)
              /\ \E f \in disk' :
                    /\ f.path = p
                    /\ f.src = audio_paths[k]
                    /\ f.samplerate = sampling_rates[k].sr]_vars

\* One export has written a file with an extension and a file whose name
\* starts with its only dot, of different rates.
C14_Witness ==
    \E f, g \in disk :
        /\ f.src.name = <<".", "c">>
        /\ f.path.name = <<".", "c", "_SNHL_sim">>
        /\ g.src.name = <<"a", ".", "w">>
        /\ g.path.name = <<"a", "_SNHL_sim", ".", "w">>
        /\ f.samplerate # g.samplerate


\* The order of the steps of one file, and the ways out of the loop.
FileOrder ==
    {<<"iter", "load">>, <<"load", "attenuate">>,
     <<"attenuate", "compress">>, <<"compress", "append_audio">>,
     <<"append_audio", "append_rate">>, <<"append_rate", "iter">>,
     <<"load", "except">>, <<"attenuate", "except">>,
     <<"compress", "except">>, <<"iter", "success">>}

LoopPcs == {"iter", "load", "attenuate", "compress", "append_audio",
            "append_rate"}

\* C15: In one run the files are taken in the order of audio_paths, one at
\* a time; each is loaded, then attenuated, then compressed, then its buffer
\* and then its rate are appended; the load of the next file begins only
\* after both appends, so that a run that overlaps no other has appended
\* exactly the results of the files before the one it loads.
C15_SequentialOrder ==
    [][\A t \in Runs :
          LET pc == threads[t].pc
              next == threads'[t].pc
          IN  (pc # next /\ pc \in LoopPcs) =>
                  /\ <<pc, next>> \in FileOrder
                  /\ next = "load" =>
                        /\ threads'[t].it = threads[t].it + 1
                        /\ threads'[t].audio_path =
                               audio_paths[threads'[t].it]
                        /\ ~overlap =>
                              /\ Len(processed_audios) = threads[t].it
                              /\ Len(sampling_rates) = threads[t].it
                              /\ \A i \in 1..threads[t].it :
                                    /\ processed_audios[i].src = audio_paths[i]
                                    /\ sampling_rates[i].src = audio_paths[i]
                  /\ pc = "append_audio" =>
                        /\ Len(processed_audios') = Len(processed_audios) + 1
                        /\ processed_audios'[Len(processed_audios')].src =
                               threads[t].audio_path
                        /\ processed_audios'[Len(processed_audios')].run = t
                  /\ pc = "append_rate" =>
                        /\ Len(sampling_rates') = Len(sampling_rates) + 1
                        /\ sampling_rates'[Len(sampling_rates')].src =
                               threads[t].audio_path
                        /\ sampling_rates'[Len(sampling_rates')].run = t]_vars

\* A run that overlaps no other loads its second file.
C15_Witness ==
    /\ ~overlap
    /\ \E t \in Runs :
          /\ threads[t].pc = "load"
          /\ threads[t].it = 2
          /\ Len(processed_audios) = 1
          /\ Len(sampling_rates) = 1


EndedPcs == {"success", "except", "finally", "done"}

\* C16: Every run that has passed the check for no paths eventually ends,
\* as a success or as a failure. It takes the success branch only when the
\* loop has passed the last path, and then enables the save button and sets
\* the success status; it takes the except clause only from a stage that
\* raised, and then shows the Processing Error dialog; after either it loads
\* no file; and it ends through stop_loading_animation, which clears the
\* loading flag.
C16_RunEnds ==
    /\ \A t \in Runs :
          InRun(t) ~> (/\ threads[t].pc = "done"
                       /\ threads[t].outcome \in {"success", "failed"})
    /\ [][\A t \in Runs :
             LET pc == threads[t].pc
                 next == threads'[t].pc
             IN  pc # next =>
                   /\ next = "success" =>
                         (pc = "iter" /\ threads[t].it >= Len(audio_paths))
                   /\ next = "except" =>
                         pc \in {"load", "attenuate", "compress"}
                   /\ pc \in EndedPcs => next \in {"finally", "done"}
                   /\ pc = "success" =>
                         /\ next = "finally"
                         /\ threads'[t].outcome = "success"
                         /\ save_button' = "NORMAL"
                         /\ status_label' =
                                "Audio files processed successfully."
                         /\ messagebox' = <<>>
                   /\ pc = "except" =>
                         /\ next = "finally"
                         /\ threads'[t].outcome = "failed"
                         /\ messagebox' # <<>>
                         /\ messagebox'[1].title = "Processing Error"
                         /\ save_button' = save_button
                         /\ status_label' = status_label
                   /\ (next = "done" /\ InRun(t)) =>
                         /\ pc = "finally"
                         /\ loading' = FALSE
                         /\ threads'[t].outcome \in {"success", "failed"}]_vars

\* One run has ended as a failure and another as a success, and the
\* loading flag is cleared.
C16_Witness ==
    /\ ~loading
    /\ \E t, u \in Runs :
          /\ threads[t].pc = "done" /\ threads[t].outcome = "failed"
          /\ threads[u].pc = "done" /\ threads[u].outcome = "success"


\* C17: When a save_audios call succeeds on a list of paths that are all
\* different, the paths it wrote are all different, and the files it left on
\* disk are as many as the paths of the list.
C17_NoOutputCollision ==
    [][(messagebox' = <<SuccessDialog>> /\ NoDuplicates(audio_paths)) =>
          /\ NoDuplicates(save.saved_files)
          /\ Cardinality({f \in disk' :
                             \E j \in 1..Len(save.saved_files) :
                                 f.path = save.saved_files[j]})
                = Len(audio_paths)]_vars

====
